---------------------------- MODULE Spec2Model ----------------------------
(***************************************************************************)
(* mpc-rs: micro parser combinators (src/src/lib.rs).                      *)
(*                                                                         *)
(* The recursive evaluator MpcParser::parse is modelled as a stack machine *)
(* over one MpcInput cursor.  A frame is one activation of parse; an       *)
(* action runs the code of one match arm from one (recursive) call of      *)
(* parse to the next, or to the arm's return.                              *)
(*                                                                         *)
(* A Rust char is a one-character string, a Rust String the sequence of    *)
(* its chars.  A function pointer is modelled by what it computes: a       *)
(* satisfy predicate by the set of chars it accepts, a lift function by    *)
(* the value it returns, a fold by its name.                               *)
(***************************************************************************)
EXTENDS Integers, Sequences, FiniteSets

\* Longest input text.
MaxLen == 3
\* Longest literal given to mpc_string.
MaxLit == 2
\* Largest n given to mpc_count.
MaxCount == 2

\* The chars inputs are made of: two ASCII letters, the newline and one char
\* that takes two bytes in UTF-8.
NL == "\n"
Alphabet == {"a", "b", NL, "é"}
\* '\0', the "received" char of an error at end of input.
NUL == "\\0"

\* Unicode scalar value of the chars used (char's Ord, lib.rs:307).
Code(c) ==
    CASE c = NL -> 10
      [] c = "a" -> 97
      [] c = "b" -> 98
      [] c = "é" -> 233
      [] c = "0" -> 48
      [] c = "9" -> 57
      [] c = "z" -> 122
      [] OTHER -> 0

\* char::len_utf8 (lib.rs:268).
len_utf8(c) ==
    IF Code(c) < 128 THEN 1
    ELSE IF Code(c) < 2048 THEN 2
    ELSE IF Code(c) < 65536 THEN 3
    ELSE 4

RECURSIVE StringsUpTo(_)
StringsUpTo(n) ==
    IF n = 0 THEN {<<>>}
    ELSE LET S == StringsUpTo(n - 1)
         IN  S \cup {Append(s, c) : s \in S, c \in Alphabet}

\* str::len, the length in bytes.
RECURSIVE ByteLen(_)
ByteLen(s) == IF s = <<>> THEN 0 ELSE len_utf8(Head(s)) + ByteLen(Tail(s))

\* Byte index at which the i-th char (1-based) of s starts.
ByteStart(s, i) == ByteLen(SubSeq(s, 1, i - 1))

\* str::contains(char) (lib.rs:319, 331).
Contains(s, c) == \E i \in 1..Len(s) : s[i] = c

(***************************************************************************)
(* MpcState, MpcErr, MpcResult, the values                                 *)
(***************************************************************************)
\* MpcState::default
MpcStateDefault == [pos |-> 0, row |-> 0, col |-> 0, term |-> 0]

\* MpcErr::new
MpcErrNew(state, expected, failure, received) ==
    [state |-> state, expected_num |-> Len(expected), filename |-> <<>>,
     failure |-> failure, expected |-> expected, received |-> received]

\* A failure message: the format string and the chars substituted into it.
Msg(fmt, args) == [fmt |-> fmt, args |-> args]

NoResult == [kind |-> "none"]
Ok(v) == [kind |-> "Ok", val |-> v]
Err(e) == [kind |-> "Err", err |-> e]

\* MpcVal = Box<dyn Any>: the payload with its dynamic type.
StringVal(s) == [type |-> "String", s |-> s]
UnitVal == [type |-> "()"]
StateVal(st) == [type |-> "MpcState", state |-> st]
AstVal(ast) == [type |-> "MpcAst", ast |-> ast]
BoxAstVal(ast) == [type |-> "Box<MpcAst>", ast |-> ast]

\* MpcAst::new
MpcAstNew(tag, contents) ==
    [tag |-> tag, contents |-> contents, state |-> MpcStateDefault,
     children_num |-> 0, children |-> <<>>]

(***************************************************************************)
(* MpcInput                                                                *)
(***************************************************************************)
\* MpcInput::new (the filename is a label only)
MpcInputNew(string) == [state |-> MpcStateDefault, string |-> string, pos |-> 0]

\* MpcInput::remaining: the chars from byte index pos on.
remaining(in) ==
    LET idx == {i \in 1..Len(in.string) : ByteStart(in.string, i) >= in.pos}
    IN  IF idx = {} THEN <<>>
        ELSE SubSeq(in.string, CHOOSE i \in idx : \A j \in idx : i <= j, Len(in.string))

None == [some |-> FALSE]
Some(c) == [some |-> TRUE, c |-> c]

\* MpcInput::peek
peek(in) == IF remaining(in) = <<>> THEN None ELSE Some(Head(remaining(in)))

\* advance with the column counted on across a newline.
advance_keeps_col(in) ==
    LET o == peek(in)
    IN  IF o.some
        THEN [in |-> [in EXCEPT !.pos = @ + len_utf8(o.c),
                                !.state.pos = @ + 1,
                                !.state.col = @ + 1,
                                !.state.row = IF o.c = NL THEN @ + 1 ELSE @],
              c |-> o]
        ELSE [in |-> in, c |-> None]

\* advance moving the byte index by one byte whatever the char's width.
advance_one_byte(in) ==
    LET o == peek(in)
    IN  IF o.some
        THEN [in |-> [in EXCEPT !.pos = @ + 1,
                                !.state.pos = @ + 1,
                                !.state.col = IF o.c = NL THEN 0 ELSE @ + 1,
                                !.state.row = IF o.c = NL THEN @ + 1 ELSE @],
              c |-> o]
        ELSE [in |-> in, c |-> None]

\* MpcInput::advance: the cursor after the call and the char returned.
advance(in) ==
    LET o == peek(in)
    IN  IF o.some
        THEN [in |-> [in EXCEPT !.pos = @ + len_utf8(o.c),
                                !.state.pos = @ + 1,
                                !.state.col = IF o.c = NL THEN 0 ELSE @ + 1,
                                !.state.row = IF o.c = NL THEN @ + 1 ELSE @],
              c |-> o]
        ELSE [in |-> in, c |-> None]

(***************************************************************************)
(* The parsers: MpcParserType and the constructors                         *)
(***************************************************************************)
mpc_any == [type |-> "Any"]
mpc_char(c) == [type |-> "Char", c |-> c]
mpc_range(s, e) == [type |-> "Range", s |-> s, e |-> e]
mpc_oneof(s) == [type |-> "OneOf", chars |-> s]
mpc_noneof(s) == [type |-> "NoneOf", chars |-> s]
mpc_satisfy(f) == [type |-> "Satisfy", f |-> f]
mpc_string(s) == [type |-> "String", s |-> s]
mpc_pass == [type |-> "Pass"]
mpc_fail(m) == [type |-> "Fail", msg |-> m]
mpc_lift(f) == [type |-> "Lift", f |-> f]
mpc_lift_val(f) == [type |-> "LiftVal", f |-> f]
mpc_anchor(f) == [type |-> "Anchor", f |-> f]
mpc_state == [type |-> "State"]
mpc_and(parsers, fold) == [type |-> "And", parsers |-> parsers, fold |-> fold]
mpc_or(parsers) == [type |-> "Or", parsers |-> parsers]
mpc_many(parser, fold) == [type |-> "Many", parser |-> parser, fold |-> fold]
mpc_many1(parser, fold) == [type |-> "Many1", parser |-> parser, fold |-> fold]
mpc_count(n, parser, fold) == [type |-> "Count", n |-> n, parser |-> parser, fold |-> fold]
mpc_sepby(parser, sep, fold) == [type |-> "SepBy", parser |-> parser, sep |-> sep, fold |-> fold]
mpc_sepby1(parser, sep, fold) == [type |-> "SepBy1", parser |-> parser, sep |-> sep, fold |-> fold]
mpca_tag(parser, tag) == [type |-> "Tag", parser |-> parser, tag |-> tag]
mpca_root(parser) == [type |-> "Root", parser |-> parser]
mpc_eoi == mpc_anchor("eoi")
mpc_soi == mpc_anchor("soi")
mpc_boundary == mpc_anchor("boundary_newline")
mpc_newline == mpc_char(NL)

(***************************************************************************)
(* The folds                                                               *)
(***************************************************************************)
RECURSIVE mpcf_strfold_from(_, _)
mpcf_strfold_from(result, xs) ==
    IF xs = <<>> THEN result
    ELSE mpcf_strfold_from(IF Head(xs).type = "String" THEN result \o Head(xs).s ELSE result,
                           Tail(xs))

mpcf_strfold(n, xs) == StringVal(mpcf_strfold_from(<<>>, xs))
mpcf_fst(n, xs) == IF xs = <<>> THEN UnitVal ELSE Head(xs)
mpcf_null(n, xs) == UnitVal

\* The call fold(results.len() as i32, results) through the function pointer.
ApplyFold(fold, n, xs) ==
    CASE fold = "mpcf_strfold" -> mpcf_strfold(n, xs)
      [] fold = "mpcf_fst" -> mpcf_fst(n, xs)
      [] fold = "mpcf_null" -> mpcf_null(n, xs)


(***************************************************************************)
(* MpcParser::parse, the primitive arms.  Each gives the cursor after the  *)
(* arm and the MpcResult it returns.                                       *)
(***************************************************************************)
Done(in, res) == [in |-> in, res |-> res]

AnyParse(p, in) ==
    LET a == advance(in)
    IN  IF a.c.some
        THEN Done(a.in, Ok(StringVal(<<a.c.c>>)))
        ELSE Done(a.in, Err(MpcErrNew(a.in.state, <<<<"a", "n", "y">>>>,
                                      Msg("unexpected end of input", <<>>), NUL)))

CharParse(p, in) ==
    LET o == peek(in)
        e(received) == Err(MpcErrNew(in.state, <<<<p.c>>>>, Msg("expected '{}'", <<p.c>>), received))
    IN  IF o.some
        THEN IF o.c = p.c
             THEN Done(advance(in).in, Ok(StringVal(<<o.c>>)))
             ELSE Done(in, e(o.c))
        ELSE Done(in, e(NUL))

RangeParse(p, in) ==
    LET o == peek(in)
        e(received) == Err(MpcErrNew(in.state, <<<<p.s, "-", p.e>>>>,
                                     Msg("expected char in range {}-{}", <<p.s, p.e>>), received))
    IN  IF o.some
        THEN IF Code(o.c) >= Code(p.s) /\ Code(o.c) <= Code(p.e)
             THEN Done(advance(in).in, Ok(StringVal(<<o.c>>)))
             ELSE Done(in, e(o.c))
        ELSE Done(in, e(NUL))

OneOfParse(p, in) ==
    LET o == peek(in)
        e(received) == Err(MpcErrNew(in.state, <<p.chars>>,
                                     Msg("expected one of '{}'", p.chars), received))
    IN  IF o.some
        THEN IF Contains(p.chars, o.c)
             THEN Done(advance(in).in, Ok(StringVal(<<o.c>>)))
             ELSE Done(in, e(o.c))
        ELSE Done(in, e(NUL))

NoneOfParse(p, in) ==
    LET o == peek(in)
    IN  IF o.some
        THEN IF ~Contains(p.chars, o.c)
             THEN Done(advance(in).in, Ok(StringVal(<<o.c>>)))
             ELSE Done(in, Err(MpcErrNew(in.state, <<<<"n", "o", "t", " ">> \o p.chars>>,
                                         Msg("unexpected one of '{}'", p.chars), o.c)))
        ELSE Done(in, Ok(StringVal(<<>>)))

\* The predicate f: fn(char) -> bool is the set of chars it accepts.
SatisfyParse(p, in) ==
    LET o == peek(in)
        Satisfy == <<"s", "a", "t", "i", "s", "f", "y">>
    IN  IF o.some
        THEN IF o.c \in p.f
             THEN Done(advance(in).in, Ok(StringVal(<<o.c>>)))
             ELSE LET a == advance(in)
                  IN  Done(a.in, Err(MpcErrNew(a.in.state, <<Satisfy>>,
                                               Msg("char does not satisfy condition", <<>>), o.c)))
        ELSE Done(in, Err(MpcErrNew(in.state, <<Satisfy>>, Msg("end of input", <<>>), NUL)))

\* The loop of the String arm over s.chars(), from the k-th char of s on:
\* the cursor it ends with, and the error it returns early with (if any).
RECURSIVE StringLoop(_, _, _)
StringLoop(s, k, in) ==
    IF k > Len(s) THEN [in |-> in, failed |-> FALSE]
    ELSE LET o == peek(in)
         IN  IF o.some
             THEN IF o.c = s[k]
                  THEN StringLoop(s, k + 1, advance(in).in)
                  ELSE [in |-> in, failed |-> TRUE, received |-> o.c]
             ELSE [in |-> in, failed |-> TRUE, received |-> NUL]

\* The String arm returning as soon as the last char of s is next, before
\* consuming it.
StringParse_short(p, in) ==
    LET l == StringLoop(p.s, 1, in)
        m == StringLoop(SubSeq(p.s, 1, Len(p.s) - 1), 1, in)
    IN  IF l.failed
        THEN Done(l.in, Err(MpcErrNew(l.in.state, <<p.s>>, Msg("expected '{}'", p.s), l.received)))
        ELSE Done(m.in, Ok(StringVal(p.s)))

StringParse(p, in) ==
    LET l == StringLoop(p.s, 1, in)
    IN  IF l.failed
        THEN Done(l.in, Err(MpcErrNew(l.in.state, <<p.s>>, Msg("expected '{}'", p.s), l.received)))
        ELSE Done(l.in, Ok(StringVal(p.s)))

PassParse(p, in) == Done(in, Ok(UnitVal))

FailParse(p, in) == Done(in, Err(MpcErrNew(in.state, <<>>, Msg(p.msg, <<>>), NUL)))

\* The function f: fn() -> MpcVal is the value it returns.
LiftParse(p, in) == Done(in, Ok(p.f))

LiftValParse(p, in) == Done(in, Ok(p.f))

\* The anchor's condition _f is not called.
AnchorParse(p, in) == Done(in, Ok(UnitVal))

\* The State arm returning a fresh MpcState instead of the cursor's.
StateParse_default(p, in) == Done(in, Ok(StateVal(MpcStateDefault)))

StateParse(p, in) == Done(in, Ok(StateVal(in.state)))


(***************************************************************************)
(* MpcParser::parse, the combinator arms.                                  *)
(*                                                                         *)
(* A frame is one activation of parse: p is the parser (self), pc is        *)
(* "start" before the arm has run and "wait" while a sub-parser it called  *)
(* runs, i is the arm's place in its loop and results its Vec of values.   *)
(* Three fields are history, written only for stating properties: entry    *)
(* (the cursor parse was called with), hist (one record per call of a      *)
(* sub-parser that has returned: the slot i it was called from, the        *)
(* sub-parser, the cursor before and after, and its result) and folded     *)
(* (the arguments of each call of the fold).                               *)
(*                                                                         *)
(* Each arm is a function of the frame f, the result r of the sub-parser   *)
(* that has just returned (NoResult at "start") and the cursor: it either  *)
(* calls a sub-parser or returns.                                          *)
(***************************************************************************)
NewFrame(p, in) ==
    [p |-> p, pc |-> "start", i |-> 0, results |-> <<>>,
     entry |-> in, hist |-> <<>>, folded |-> <<>>]

Call(f, i, child) == [op |-> "call", frame |-> [f EXCEPT !.pc = "wait", !.i = i], child |-> child]
Return(f, res) == [op |-> "return", frame |-> f, res |-> res]

\* let folded = fold(results.len() as i32, results); MpcResult::Ok(folded)
FoldReturn(f) ==
    Return([f EXCEPT !.folded = Append(@, [n |-> Len(f.results), xs |-> f.results])],
           Ok(ApplyFold(f.p.fold, Len(f.results), f.results)))

Push(f, val) == [f EXCEPT !.results = Append(@, val)]

\* The And arm going on with the next sub-parser after a failure.
AndArm_goes_on(f, r, in) ==
    LET n == Len(f.p.parsers)
        g == IF r.kind = "Ok" THEN Push(f, r.val) ELSE f
    IN  IF f.pc = "start" /\ n = 0 THEN FoldReturn(f)
        ELSE IF f.pc = "start" THEN Call(f, 1, f.p.parsers[1])
        ELSE IF f.i = n
             THEN IF r.kind = "Err" THEN Return(f, Err(r.err)) ELSE FoldReturn(g)
             ELSE Call(g, f.i + 1, f.p.parsers[f.i + 1])

AndArm(f, r, in) ==
    LET n == Len(f.p.parsers)
    IN  IF f.pc = "start"
        THEN IF n = 0 THEN FoldReturn(f) ELSE Call(f, 1, f.p.parsers[1])
        ELSE IF r.kind = "Err" THEN Return(f, Err(r.err))
        ELSE IF f.i = n THEN FoldReturn(Push(f, r.val))
        ELSE Call(Push(f, r.val), f.i + 1, f.p.parsers[f.i + 1])

TagArm(f, r, in) ==
    IF f.pc = "start" THEN Call(f, 1, f.p.parser)
    ELSE IF r.kind = "Err" THEN Return(f, Err(r.err))
    \* format!("{:?}", val) of a Box<dyn Any>
    ELSE Return(f, Ok(AstVal(MpcAstNew(f.p.tag, "Any { .. }"))))

RootArm(f, r, in) ==
    IF f.pc = "start" THEN Call(f, 1, f.p.parser)
    ELSE IF r.kind = "Err" THEN Return(f, Err(r.err))
    ELSE IF r.val.type = "MpcAst"
         THEN Return(f, Ok(BoxAstVal([r.val.ast EXCEPT !.tag = "root"])))
         ELSE Return(f, Ok(r.val))

OrArm(f, r, in) ==
    LET n == Len(f.p.parsers)
        none == Return(f, Err(MpcErrNew(in.state, <<<<"o", "r">>>>,
                                        Msg("no alternatives matched", <<>>), NUL)))
    IN  IF f.pc = "start"
        THEN IF n = 0 THEN none ELSE Call(f, 1, f.p.parsers[1])
        ELSE IF r.kind = "Ok" THEN Return(f, Ok(r.val))
        ELSE IF f.i = n THEN none
        ELSE Call(f, f.i + 1, f.p.parsers[f.i + 1])

ManyArm(f, r, in) ==
    IF f.pc = "start" THEN Call(f, 1, f.p.parser)
    ELSE IF r.kind = "Ok" THEN Call(Push(f, r.val), f.i + 1, f.p.parser)
    ELSE FoldReturn(f)

\* The Many1 arm taking a failure of the first application as the end of the
\* loop, as the Many arm does.
Many1Arm_first_optional(f, r, in) == ManyArm(f, r, in)

Many1Arm(f, r, in) ==
    IF f.pc = "start" THEN Call(f, 1, f.p.parser)
    ELSE IF r.kind = "Ok" THEN Call(Push(f, r.val), f.i + 1, f.p.parser)
    ELSE IF f.i = 1 THEN Return(f, Err(r.err))
    ELSE FoldReturn(f)

CountArm(f, r, in) ==
    IF f.pc = "start"
    THEN IF f.p.n <= 0 THEN FoldReturn(f) ELSE Call(f, 1, f.p.parser)
    ELSE IF r.kind = "Err" THEN Return(f, Err(r.err))
    ELSE IF f.i = f.p.n THEN FoldReturn(Push(f, r.val))
    ELSE Call(Push(f, r.val), f.i + 1, f.p.parser)

\* In the separated lists the sub-parser called at an odd i is the element
\* parser, at an even i the separator.
SepByArm(f, r, in) ==
    IF f.pc = "start" THEN Call(f, 1, f.p.parser)
    ELSE IF r.kind = "Err" THEN FoldReturn(f)
    ELSE IF f.i % 2 = 1 THEN Call(Push(f, r.val), f.i + 1, f.p.sep)
    ELSE Call(f, f.i + 1, f.p.parser)

SepBy1Arm(f, r, in) ==
    IF f.pc = "start" THEN Call(f, 1, f.p.parser)
    ELSE IF r.kind = "Err"
         THEN IF f.i = 1 THEN Return(f, Err(r.err)) ELSE FoldReturn(f)
    ELSE IF f.i % 2 = 1 THEN Call(Push(f, r.val), f.i + 1, f.p.sep)
    ELSE Call(f, f.i + 1, f.p.parser)


(***************************************************************************)
(* The grammars and inputs checked                                         *)
(***************************************************************************)
mpc_whitespace == mpc_oneof(<<" ", "\t", NL, "\r">>)
mpc_digit == mpc_range("0", "9")
mpc_lower == mpc_range("a", "z")

\* Predicates given to mpc_satisfy: none, 'a' only, every char.
Preds == {{}, {"a"}, Alphabet}

Prims ==
    {mpc_any, mpc_pass, mpc_state, mpc_fail("msg"), mpc_lift(UnitVal),
     mpc_lift_val(StringVal(<<"a">>)), mpc_eoi, mpc_soi, mpc_boundary,
     mpc_whitespace, mpc_digit, mpc_lower, mpc_range(NL, "a"),
     mpc_oneof(<<"a", "é">>), mpc_noneof(<<"b">>), mpc_noneof(<<>>)}
    \cup {mpc_char(c) : c \in Alphabet}
    \cup {mpc_satisfy(f) : f \in Preds}
    \cup {mpc_string(s) : s \in StringsUpTo(MaxLit)}

\* The sub-parsers the combinators are built over.
Elems ==
    {mpc_char("a"), mpc_satisfy({"a"}), mpc_string(<<"a", "b">>), mpc_pass,
     mpc_noneof(<<"b">>), mpc_state, mpc_any, mpc_fail("msg")}

Seps == {mpc_char("b"), mpc_newline, mpc_pass}

Lists == {<<>>} \cup {<<x>> : x \in Elems} \cup {<<x, y>> : x, y \in Elems}

Nested ==
    {mpc_and(<<mpc_many1(mpc_char("a"), "mpcf_strfold"), mpc_char("b")>>, "mpcf_strfold"),
     mpc_and(<<mpc_char("a"), mpc_char("b"), mpc_char("a")>>, "mpcf_fst"),
     mpc_and(<<mpc_any, mpc_state, mpc_any>>, "mpcf_null"),
     mpc_and(<<mpc_any, mpca_tag(mpc_char("a"), "t")>>, "mpcf_fst"),
     mpc_or(<<mpc_and(<<mpc_char("a"), mpc_char("b")>>, "mpcf_strfold"), mpc_char("a")>>),
     mpc_or(<<mpc_char("a"), mpc_char("b")>>),
     mpc_or(<<mpc_char("b"), mpc_string(<<"a", "b">>), mpc_any>>),
     mpc_or(<<mpc_or(<<mpc_string(<<"a", "b">>), mpc_char(NL)>>), mpc_char("a")>>),
     mpc_and(<<mpc_any, mpc_or(<<mpc_char("a"), mpc_char("b")>>)>>, "mpcf_strfold"),
     mpc_many(mpc_and(<<mpc_char("a"), mpc_char("b")>>, "mpcf_strfold"), "mpcf_strfold"),
     mpc_many(mpc_many(mpc_char("a"), "mpcf_strfold"), "mpcf_strfold"),
     mpc_many1(mpc_or(<<mpc_char("a"), mpc_char("b")>>), "mpcf_strfold"),
     mpc_sepby(mpc_many1(mpc_char("a"), "mpcf_strfold"), mpc_char("b"), "mpcf_strfold"),
     mpca_root(mpca_tag(mpc_char("a"), "t")),
     mpca_root(mpc_char("a"))}

Grammars ==
    Prims
    \cup {mpc_and(l, "mpcf_strfold") : l \in Lists}
    \cup {mpc_or(l) : l \in Lists}
    \cup {mpc_many(x, "mpcf_strfold") : x \in Elems}
    \cup {mpc_many1(x, "mpcf_strfold") : x \in Elems}
    \cup {mpc_count(n, x, "mpcf_strfold") : n \in 0..MaxCount, x \in Elems}
    \cup {mpc_sepby(x, s, "mpcf_strfold") : x \in Elems, s \in Seps}
    \cup {mpc_sepby1(x, s, "mpcf_strfold") : x \in Elems, s \in Seps}
    \cup {mpca_tag(x, "t") : x \in Elems}
    \cup Nested

\* The input of the "aaab" scenario, one char longer than MaxLen.
Scenario == [j \in 1..(MaxLen + 1) |-> IF j <= MaxLen THEN "a" ELSE "b"]

Inputs == StringsUpTo(MaxLen) \cup {Scenario}

\* A loop of many, many1, sepby or sepby1 that runs for ever is followed up
\* to this many calls of its sub-parsers; every loop that ends on an input of
\* at most MaxLen + 1 chars ends within them.
MaxCalls == 2 * (MaxLen + 1) + 2

(***************************************************************************)
(* The state                                                               *)
(***************************************************************************)
VARIABLES
    parser,   \* the parser given to mpc_parse
    input,    \* the MpcInput of this parse
    stack,    \* the activations of MpcParser::parse, the innermost last
    ret,      \* the MpcResult the last activation returned to the top of stack
    last      \* history: the activation that returned last

vars == <<parser, input, stack, ret, last>>

NoLast == [p |-> [type |-> "none"]]

\* mpc_parse(filename, string, parser) up to its call of parser.parse
Init ==
    /\ parser \in Grammars
    /\ \E string \in Inputs : input = MpcInputNew(string)
    /\ stack = <<NewFrame(parser, input)>>
    /\ ret = NoResult
    /\ last = NoLast

Top == stack[Len(stack)]
Running(type) == stack # <<>> /\ Top.p.type = type
\* mpc_parse has returned ret
Returned == stack = <<>>

\* The activation f returns res, leaving the cursor as in2.
Finish(f, res, in2) ==
    LET rest == SubSeq(stack, 1, Len(stack) - 1)
    IN  /\ input' = in2
        /\ ret' = res
        /\ last' = [p |-> f.p, entry |-> f.entry, exit |-> in2, res |-> res,
                    hist |-> f.hist, folded |-> f.folded, depth |-> Len(stack)]
        /\ stack' = IF rest = <<>> THEN rest
                    ELSE [rest EXCEPT ![Len(rest)].hist =
                            Append(@, [i |-> rest[Len(rest)].i, p |-> f.p, from |-> f.entry,
                                       to |-> in2, res |-> res])]
        /\ UNCHANGED parser

\* A primitive arm has run.
Prim(d) == Finish(Top, d.res, d.in)

\* A combinator arm has run up to its next call of a sub-parser or its return.
Arm(d) ==
    IF d.op = "call"
    THEN /\ d.frame.i <= MaxCalls
         /\ stack' = [stack EXCEPT ![Len(stack)] = d.frame] \o <<NewFrame(d.child, input)>>
         /\ ret' = NoResult
         /\ UNCHANGED <<parser, input, last>>
    ELSE Finish(d.frame, d.res, input)

ParseAny == Running("Any") /\ Prim(AnyParse(Top.p, input))
ParseChar == Running("Char") /\ Prim(CharParse(Top.p, input))
ParseRange == Running("Range") /\ Prim(RangeParse(Top.p, input))
ParseOneOf == Running("OneOf") /\ Prim(OneOfParse(Top.p, input))
ParseNoneOf == Running("NoneOf") /\ Prim(NoneOfParse(Top.p, input))
ParseSatisfy == Running("Satisfy") /\ Prim(SatisfyParse(Top.p, input))
ParseString == Running("String") /\ Prim(StringParse(Top.p, input))
ParsePass == Running("Pass") /\ Prim(PassParse(Top.p, input))
ParseFail == Running("Fail") /\ Prim(FailParse(Top.p, input))
ParseLift == Running("Lift") /\ Prim(LiftParse(Top.p, input))
ParseLiftVal == Running("LiftVal") /\ Prim(LiftValParse(Top.p, input))
ParseAnchor == Running("Anchor") /\ Prim(AnchorParse(Top.p, input))
ParseState == Running("State") /\ Prim(StateParse(Top.p, input))
ParseAnd == Running("And") /\ Arm(AndArm(Top, ret, input))
ParseTag == Running("Tag") /\ Arm(TagArm(Top, ret, input))
ParseRoot == Running("Root") /\ Arm(RootArm(Top, ret, input))
ParseOr == Running("Or") /\ Arm(OrArm(Top, ret, input))
ParseMany == Running("Many") /\ Arm(ManyArm(Top, ret, input))
ParseMany1 == Running("Many1") /\ Arm(Many1Arm(Top, ret, input))
ParseCount == Running("Count") /\ Arm(CountArm(Top, ret, input))
ParseSepBy == Running("SepBy") /\ Arm(SepByArm(Top, ret, input))
ParseSepBy1 == Running("SepBy1") /\ Arm(SepBy1Arm(Top, ret, input))

Next ==
    \/ ParseAny \/ ParseChar \/ ParseRange \/ ParseOneOf \/ ParseNoneOf
    \/ ParseSatisfy \/ ParseString \/ ParsePass \/ ParseFail \/ ParseLift
    \/ ParseLiftVal \/ ParseAnchor \/ ParseState \/ ParseAnd \/ ParseTag
    \/ ParseRoot \/ ParseOr \/ ParseMany \/ ParseMany1 \/ ParseCount
    \/ ParseSepBy \/ ParseSepBy1

Spec == Init /\ [][Next]_vars


(***************************************************************************)
(* Properties                                                              *)
(***************************************************************************)
Range(s) == {s[j] : j \in 1..Len(s)}
Last(s) == s[Len(s)]
Max(S) == CHOOSE x \in S : \A y \in S : y <= x

\* The chars of the input between the byte indices of two cursors.
Slice(in0, in1) ==
    LET s == in0.string
        idx == {j \in 1..Len(s) : ByteStart(s, j) >= in0.pos /\ ByteStart(s, j) < in1.pos}
    IN  IF idx = {} THEN <<>>
        ELSE SubSeq(s, CHOOSE j \in idx : \A k \in idx : j <= k, Max(idx))

Newlines(s) == Cardinality({j \in 1..Len(s) : s[j] = NL})

\* A call that succeeded without moving the cursor.
ZeroWidth(h) == h.res.kind = "Ok" /\ h.to = h.from

\* C1: every alternative of an or is attempted from the cursor Position
\* (offset, row, col and byte index) at which the or was entered, also after
\* an earlier alternative failed having consumed chars.
C1_OrTriesEachFromEntry ==
    \A j \in 1..(Len(stack) - 1) :
        stack[j].p.type = "Or" => stack[j + 1].entry = stack[j].entry

\* C2: when every alternative of an or fails, its error is positioned at the
\* furthest failure position among the alternatives and its expected set is
\* the union of the expected sets of the alternatives that failed there.
C2_OrFarthestFailure ==
    (last.p.type = "Or" /\ last.res.kind = "Err" /\ last.hist # <<>>) =>
        LET errs == {h.res.err : h \in Range(last.hist)}
            far == Max({e.state.pos : e \in errs})
            at == {e \in errs : e.state.pos = far}
        IN  /\ \E e \in at : last.res.err.state = e.state
            /\ Range(last.res.err.expected) = UNION {Range(e.expected) : e \in at}

\* C3: many(p) never returns an error, and returns with the cursor at the
\* Position held immediately before p's failing attempt; when p fails on its
\* first attempt the fold is empty and nothing is consumed.
C3_ManyRestoresBeforeFailure ==
    last.p.type = "Many" =>
        /\ last.res.kind = "Ok"
        /\ Last(last.hist).res.kind = "Err"
        /\ last.exit = Last(last.hist).from
        /\ Len(last.hist) = 1 =>
              /\ last.folded = <<[n |-> 0, xs |-> <<>>]>>
              /\ last.exit = last.entry

\* C4: many and many1 treat a zero-width success of p as a single iteration:
\* p is not applied again after it succeeded without consuming input.
C4_ZeroWidthNotRepeated ==
    \A k \in 1..Len(stack) :
        stack[k].p.type \in {"Many", "Many1"} =>
            \A j \in 1..Len(stack[k].hist) :
                ZeroWidth(stack[k].hist[j]) => stack[k].i = j

SingleCharMatchers == {"Any", "Char", "Range", "OneOf", "NoneOf", "Satisfy"}

\* C5: a failing single-character matcher returns an error carrying the
\* Position at which it was invoked and a non-empty expected set.
C5_MatcherErrorAtEntry ==
    (last.p.type \in SingleCharMatchers /\ last.res.kind = "Err") =>
        /\ last.res.err.state = last.entry.state
        /\ last.res.err.expected # <<>>

Matchers == SingleCharMatchers \cup {"String"}

\* C6: a primitive matcher that succeeds having consumed k chars leaves
\* offset = start offset + k, row = start row + the newlines of the consumed
\* slice, and col = the chars consumed after the slice's last newline (start
\* col + k when it has none).
C6_MatcherPosition ==
    (last.p.type \in Matchers /\ last.res.kind = "Ok") =>
        LET sl == Slice(last.entry, last.exit)
            k == Len(sl)
            nls == {j \in 1..k : sl[j] = NL}
        IN  /\ last.exit.state.pos = last.entry.state.pos + k
            /\ last.exit.state.row = last.entry.state.row + Newlines(sl)
            /\ last.exit.state.col =
                  IF nls = {} THEN last.entry.state.col + k ELSE k - Max(nls)

\* A matcher has consumed a newline, starting after a two-byte char.
C6_Witness ==
    /\ last.p.type \in Matchers /\ last.res.kind = "Ok"
    /\ last.entry.state.pos > 0
    /\ last.entry.pos > last.entry.state.pos
    /\ Newlines(Slice(last.entry, last.exit)) = 1
    /\ Len(Slice(last.entry, last.exit)) = 1

\* C7: mpc_string(s) on the input s, from a fresh cursor, succeeds with the
\* value s and the cursor at end-of-input, offset = the number of chars of s.
C7_StringRoundTrip ==
    (Returned /\ parser.type = "String" /\ input.string = parser.s) =>
        /\ ret = Ok(StringVal(parser.s))
        /\ input.state.pos = Len(parser.s)
        /\ input.pos = ByteLen(input.string)
        /\ peek(input) = None

\* The round trip of a literal of the greatest length, with a newline and a
\* two-byte char in it.
C7_Witness ==
    /\ Returned /\ parser.type = "String" /\ input.string = parser.s
    /\ Len(parser.s) = MaxLit
    /\ {NL, "é"} \subseteq Range(parser.s)

NonConsuming == {"Pass", "Lift", "LiftVal", "Anchor", "State"}

\* C8: pass, lift, lift_val, anchor and state leave the whole cursor
\* unchanged when they succeed, and state returns the Position the cursor had
\* when it was invoked.
C8_NonConsuming ==
    (last.p.type \in NonConsuming /\ last.res.kind = "Ok") =>
        /\ last.exit = last.entry
        /\ last.p.type = "State" => last.res.val = StateVal(last.entry.state)

\* state has run after a two-byte char was consumed.
C8_Witness ==
    /\ last.p.type = "State" /\ last.res.kind = "Ok"
    /\ last.entry.state.pos > 0
    /\ last.entry.pos > last.entry.state.pos

\* C9: and runs its sub-parsers in order from where the one before left the
\* cursor; the first failure ends it: no later sub-parser runs, the fold is
\* not called, the result is that error unchanged and the cursor stays where
\* the failing sub-parser left it; with no failure the fold is called once
\* with count n and the n sub-results in order.
C9_AndShortCircuits ==
    last.p.type = "And" =>
        LET h == last.hist
            n == Len(last.p.parsers)
        IN  /\ Len(h) <= n
            /\ \A j \in 1..Len(h) :
                  /\ h[j].i = j /\ h[j].p = last.p.parsers[j]
                  /\ h[j].from = (IF j = 1 THEN last.entry ELSE h[j - 1].to)
                  /\ j < Len(h) => h[j].res.kind = "Ok"
            /\ last.exit = (IF h = <<>> THEN last.entry ELSE Last(h).to)
            /\ IF last.res.kind = "Err"
               THEN /\ h # <<>>
                    /\ last.res = Last(h).res
                    /\ last.folded = <<>>
               ELSE /\ Len(h) = n
                    /\ \A j \in 1..n : h[j].res.kind = "Ok"
                    /\ last.folded = <<[n |-> n, xs |-> [j \in 1..n |-> h[j].res.val]]>>

\* An and of three has failed at its second sub-parser, after its first had
\* consumed input.
C9_Witness ==
    /\ last.p.type = "And" /\ last.res.kind = "Err"
    /\ Len(last.p.parsers) = 3 /\ Len(last.hist) = 2
    /\ last.exit.state.pos > last.entry.state.pos

\* C10: sepby and sepby1, when they succeed, leave the cursor right after the
\* last element folded (where they were entered if there is none), so a
\* separator not followed by an element is not left consumed; the fold
\* receives exactly the elements parsed.
C10_SepByRestores ==
    (last.p.type \in {"SepBy", "SepBy1"} /\ last.res.kind = "Ok") =>
        LET h == last.hist
            elems == {j \in 1..Len(h) : j % 2 = 1 /\ h[j].res.kind = "Ok"}
            m == Cardinality(elems)
        IN  /\ last.exit = (IF elems = {} THEN last.entry ELSE h[Max(elems)].to)
            /\ elems = {2 * k - 1 : k \in 1..m}
            /\ last.folded = <<[n |-> m, xs |-> [k \in 1..m |-> h[2 * k - 1].res.val]]>>


\* C11: tag(p, t) on success returns an AstNode whose tag is t and whose
\* position is the cursor Position at which p began, also when earlier parsers
\* of a sequence have consumed input; on failure it returns p's error
\* unchanged.
C11_TagPosition ==
    last.p.type = "Tag" =>
        IF last.res.kind = "Ok"
        THEN /\ last.res.val.type = "MpcAst"
             /\ last.res.val.ast.tag = last.p.tag
             /\ last.res.val.ast.state = last.hist[1].from.state
        ELSE last.res = last.hist[1].res


C12_WitnessFirstFails ==
    /\ last.p.type = "Many1" /\ last.res.kind = "Err"
    /\ Len(last.hist) = 1


\* The byte indices of s that lie on a char boundary, its end included.
Boundaries(s) == {ByteStart(s, j) : j \in 1..(Len(s) + 1)}

\* C13: in every state of a parse the byte index lies on a char boundary
\* within the input, and there advance() at end-of-input returns none and
\* changes nothing; otherwise it returns the char at the byte index, moves the
\* byte index by that char's UTF-8 width (onto a boundary, not past the end)
\* and the offset by one, and a newline sets col to 0 and increments row while
\* any other char increments col and leaves row; peek() returns the same char
\* and leaves the cursor as it is.
C13_AdvanceContract ==
    LET s == input.string
        a == advance(input)
    IN  /\ input.pos \in Boundaries(s)
        /\ input.pos = ByteStart(s, input.state.pos + 1)
        /\ IF input.pos = ByteLen(s)
           THEN /\ peek(input) = None
                /\ a.c = None
                /\ a.in = input
           ELSE LET c == s[input.state.pos + 1]
                    width == IF c = "é" THEN 2 ELSE 1
                IN  /\ peek(input) = Some(c)
                    /\ a.c = Some(c)
                    /\ a.in.string = s
                    /\ a.in.pos = input.pos + width
                    /\ a.in.pos \in Boundaries(s)
                    /\ a.in.pos <= ByteLen(s)
                    /\ a.in.state.pos = input.state.pos + 1
                    /\ a.in.state.term = input.state.term
                    /\ IF c = NL
                       THEN /\ a.in.state.col = 0
                            /\ a.in.state.row = input.state.row + 1
                       ELSE /\ a.in.state.col = input.state.col + 1
                            /\ a.in.state.row = input.state.row

\* The cursor stands after a newline, before a two-byte char that is
\* followed by more input.
C13_Witness ==
    /\ input.state.row = 1 /\ input.state.col = 0
    /\ peek(input) = Some("é")
    /\ input.pos + 2 < ByteLen(input.string)

============================================================================
